---- MODULE Spec2Model ----
(***************************************************************************)
(* Model of krnkl/revisor: verification of HTTP requests and responses     *)
(* against an OpenAPI v2 document (revisor.go, mapper.go).                 *)
(*                                                                         *)
(* Strings are sequences of one-character strings so that trimming,        *)
(* prefix removal and substring search are computed, not assumed.  An      *)
(* error value is the chain of its messages, outermost wrapper first; the  *)
(* nil error is the empty chain.                                           *)
(***************************************************************************)
EXTENDS Integers, Sequences, FiniteSets, TLC

VARIABLES
    pc,        \* "new": apiVerifier built by newAPIVerifier; "ready": mapper installed; "panic"
    doc,       \* a.doc: the expanded OpenAPI model
    opts,      \* a.opts: [strictContentType, ignoreBasePath]
    mapper,    \* a.mapper: [set, basePath, routes]
    req,       \* the *http.Request handle held by the caller
    res,       \* the *http.Response handle held by the caller (possibly nil)
    orig,      \* the bytes the caller supplied: [req |-> bytes, res |-> bytes]
    ret        \* what the last call returned and the values of its locals

vars == <<pc, doc, opts, mapper, req, res, orig, ret>>

(***************************************************************************)
(* Bounds                                                                  *)
(***************************************************************************)
\* longest body, in bytes, a caller supplies
MaxBodyLen == 2

(***************************************************************************)
(* Strings                                                                 *)
(***************************************************************************)
EmptyStr == <<>>
Space == " "

RECURSIVE TrimLeft(_, _)
TrimLeft(s, c) ==
    IF s # <<>> /\ Head(s) = c THEN TrimLeft(Tail(s), c) ELSE s

RECURSIVE TrimRight(_, _)
TrimRight(s, c) ==
    IF s # <<>> /\ s[Len(s)] = c THEN TrimRight(SubSeq(s, 1, Len(s) - 1), c) ELSE s

\* strings.Trim(s, cutset) for a cutset of one character
Trim(s, c) == TrimRight(TrimLeft(s, c), c)

\* strings.HasPrefix
HasPrefix(s, p) == Len(p) <= Len(s) /\ SubSeq(s, 1, Len(p)) = p

\* strings.TrimPrefix
TrimPrefix(s, p) == IF HasPrefix(s, p) THEN SubSeq(s, Len(p) + 1, Len(s)) ELSE s

\* strings.Contains
Contains(s, sub) ==
    \E i \in 0..(Len(s) - Len(sub)) : SubSeq(s, i + 1, i + Len(sub)) = sub

\* Only({ F(x) : x \in {e} }) is F(e), with the local value e computed once
Only(S) == CHOOSE x \in S : TRUE

(***************************************************************************)
(* Errors (github.com/pkg/errors)                                          *)
(***************************************************************************)
NoErr == <<>>

\* errors.New(msg)
New(msg) == << [msg |-> msg, arg |-> <<>>] >>

\* errors.New(msg + arg)
NewWith(msg, arg) == << [msg |-> msg, arg |-> arg] >>

\* errors.Wrap(err, msg): nil stays nil
Wrap(err, msg) == IF err = NoErr THEN NoErr ELSE << [msg |-> msg, arg |-> <<>>] >> \o err

\* the messages of a chain
Msgs(err) == { err[i].msg : i \in 1..Len(err) }

\* chain `inner` is carried by chain `outer` (outer wraps inner, possibly several times)
Carries(outer, inner) ==
    /\ Len(inner) <= Len(outer)
    /\ SubSeq(outer, Len(outer) - Len(inner) + 1, Len(outer)) = inner

(***************************************************************************)
(* The OpenAPI model (go-openapi/spec), as far as revisor.go reads it      *)
(***************************************************************************)
Methods == {"GET", "PUT", "POST", "DELETE", "OPTIONS", "HEAD", "PATCH"}

NoSchema == [present |-> FALSE, type |-> "none"]
Schema(t) == [present |-> TRUE, type |-> t]

NoResponseDef == [present |-> FALSE, schema |-> NoSchema]
ResponseDef(s) == [present |-> TRUE, schema |-> s]

Param(in, required, schema) == [in |-> in, required |-> required, schema |-> schema]
NoParam == [in |-> "none", required |-> FALSE, schema |-> NoSchema]

NoOperation ==
    [present |-> FALSE, parameters |-> <<>>, consumes |-> <<>>, produces |-> <<>>,
     default |-> NoResponseDef, codes |-> <<>>]

Operation(parameters, consumes, produces, default, codes) ==
    [present |-> TRUE, parameters |-> parameters, consumes |-> consumes,
     produces |-> produces, default |-> default, codes |-> codes]

\* checkIfSchemaOrBodyIsEmpty with the two length tests exchanged
checkIfSchemaOrBodyIsEmpty_Swapped(schema, bodyLen) ==
    IF ~schema.present /\ bodyLen = 0 THEN New("schema is not defined")
    ELSE IF schema.present /\ bodyLen # 0 THEN New("body is empty")
    ELSE NoErr

(***************************************************************************)
(* checkIfSchemaOrBodyIsEmpty (revisor.go:261)                             *)
(***************************************************************************)
checkIfSchemaOrBodyIsEmpty(schema, bodyLen) ==
    IF ~schema.present /\ bodyLen # 0 THEN New("schema is not defined")
    ELSE IF schema.present /\ bodyLen = 0 THEN New("body is empty")
    ELSE NoErr

\* the matching loop comparing against the declared entry as written,
\* without trimming it
RECURSIVE matchLoop_RawTarget(_, _, _, _, _)
matchLoop_RawTarget(strict, contentType, matched, allowed, i) ==
    IF i > Len(allowed)
    THEN [out |-> EmptyStr,
          err |-> NewWith("Content-Type is not configured: ", contentType)]
    ELSE LET target == allowed[i] IN
         IF strict
         THEN IF matched = target
              THEN [out |-> matched, err |-> NoErr]
              ELSE matchLoop_RawTarget(strict, contentType, matched, allowed, i + 1)
         ELSE IF Contains(matched, target)
              THEN [out |-> matched, err |-> NoErr]
              ELSE matchLoop_RawTarget(strict, contentType, matched, allowed, i + 1)

\* the matching loop whose relaxed branch searches for the declared entry
\* as written, without trimming it
RECURSIVE matchLoop_RelaxedRaw(_, _, _, _, _)
matchLoop_RelaxedRaw(strict, contentType, matched, allowed, i) ==
    IF i > Len(allowed)
    THEN [out |-> EmptyStr,
          err |-> NewWith("Content-Type is not configured: ", contentType)]
    ELSE LET target == Trim(allowed[i], Space) IN
         IF strict
         THEN IF matched = target
              THEN [out |-> matched, err |-> NoErr]
              ELSE matchLoop_RelaxedRaw(strict, contentType, matched, allowed, i + 1)
         ELSE IF Contains(matched, allowed[i])
              THEN [out |-> matched, err |-> NoErr]
              ELSE matchLoop_RelaxedRaw(strict, contentType, matched, allowed, i + 1)

\* the matching loop whose failure reports the trimmed header value
RECURSIVE matchLoop_TrimmedArg(_, _, _, _, _)
matchLoop_TrimmedArg(strict, contentType, matched, allowed, i) ==
    IF i > Len(allowed)
    THEN [out |-> EmptyStr,
          err |-> NewWith("Content-Type is not configured: ", matched)]
    ELSE LET target == Trim(allowed[i], Space) IN
         IF strict
         THEN IF matched = target
              THEN [out |-> matched, err |-> NoErr]
              ELSE matchLoop_TrimmedArg(strict, contentType, matched, allowed, i + 1)
         ELSE IF Contains(matched, target)
              THEN [out |-> matched, err |-> NoErr]
              ELSE matchLoop_TrimmedArg(strict, contentType, matched, allowed, i + 1)

(***************************************************************************)
(* matchContentType (revisor.go:194): the loop over the allowed entries.   *)
(* It returns the trimmed header value, not the declared entry.            *)
(***************************************************************************)
RECURSIVE matchLoop(_, _, _, _, _)
matchLoop(strict, contentType, matched, allowed, i) ==
    IF i > Len(allowed)
    THEN [out |-> EmptyStr,
          err |-> NewWith("Content-Type is not configured: ", contentType)]
    ELSE LET target == Trim(allowed[i], Space) IN
         IF strict
         THEN IF matched = target
              THEN [out |-> matched, err |-> NoErr]
              ELSE matchLoop(strict, contentType, matched, allowed, i + 1)
         ELSE IF Contains(matched, target)
              THEN [out |-> matched, err |-> NoErr]
              ELSE matchLoop(strict, contentType, matched, allowed, i + 1)

matchContentType(o, contentType, allowed) ==
    IF Len(allowed) = 0 /\ o.strictContentType
    THEN [out |-> EmptyStr, err |-> New("array of allowed content types is empty")]
    ELSE matchLoop(o.strictContentType, contentType, Trim(contentType, Space), allowed, 1)

\* getBodyParameter without the test of the parameter's location
getBodyParameter_AnyLocation(params) ==
    IF params = <<>> THEN [found |-> FALSE, param |-> NoParam]
    ELSE [found |-> TRUE, param |-> Head(params)]

\* getBodyParameter returning the last parameter located in the body
RECURSIVE getBodyParameter_Last(_)
getBodyParameter_Last(params) ==
    IF params = <<>> THEN [found |-> FALSE, param |-> NoParam]
    ELSE IF params[Len(params)].in = "body"
         THEN [found |-> TRUE, param |-> params[Len(params)]]
    ELSE getBodyParameter_Last(SubSeq(params, 1, Len(params) - 1))

(***************************************************************************)
(* getBodyParameter (revisor.go:216): first parameter located in the body  *)
(***************************************************************************)
RECURSIVE getBodyParameter(_)
getBodyParameter(params) ==
    IF params = <<>> THEN [found |-> FALSE, param |-> NoParam]
    ELSE IF Head(params).in = "body" THEN [found |-> TRUE, param |-> Head(params)]
    ELSE getBodyParameter(Tail(params))

\* responseByStatus preferring the default response to the one declared
\* for the status code
responseByStatus_DefaultFirst(status, operation) ==
    LET response == IF operation.default.present
                    THEN operation.default
                    ELSE IF status \in DOMAIN operation.codes
                         THEN operation.codes[status]
                         ELSE NoResponseDef
    IN  IF ~response.present
        THEN [response |-> NoResponseDef,
              err |-> New("neither default nor response schema for current status code is defined")]
        ELSE [response |-> response, err |-> NoErr]

(***************************************************************************)
(* responseByStatus (revisor.go:294)                                       *)
(***************************************************************************)
responseByStatus(status, operation) ==
    LET response == IF status \in DOMAIN operation.codes
                    THEN operation.codes[status]
                    ELSE operation.default
    IN  IF ~response.present
        THEN [response |-> NoResponseDef,
              err |-> New("neither default nor response schema for current status code is defined")]
        ELSE [response |-> response, err |-> NoErr]

(***************************************************************************)
(* operationByMethod (revisor.go:305)                                      *)
(***************************************************************************)
operationByMethod(method, pathDef) ==
    LET operation == IF method \in Methods THEN pathDef.ops[method] ELSE NoOperation
    IN  IF ~operation.present
        THEN [operation |-> NoOperation,
              err |-> NewWith("no operation configured for method: ", <<method>>)]
        ELSE [operation |-> operation, err |-> NoErr]

(***************************************************************************)
(* Bodies and decoding.  A body is a run of bytes over a two-letter        *)
(* alphabet: the digit 1 and the double quote, enough for JSON numbers     *)
(* (1, 11, ...) and JSON strings ("", "1", ...).                           *)
(***************************************************************************)
Digit == "1"
Quote == "q"
Bytes == {Digit, Quote}

IsJSONNumber(b) == b # <<>> /\ \A i \in 1..Len(b) : b[i] = Digit

IsJSONString(b) ==
    /\ Len(b) >= 2
    /\ b[1] = Quote
    /\ b[Len(b)] = Quote
    /\ \A i \in 2..(Len(b) - 1) : b[i] = Digit

NilValue == [kind |-> "nil", size |-> 0]

\* jsonDecoder decoding an empty input to the nil value
jsonDecoder_EmptyIsNil(b) ==
    IF b = <<>> THEN [decoded |-> NilValue, err |-> NoErr]
    ELSE IF IsJSONNumber(b) THEN [decoded |-> [kind |-> "number", size |-> Len(b)], err |-> NoErr]
    ELSE IF IsJSONString(b) THEN [decoded |-> [kind |-> "string", size |-> Len(b) - 2], err |-> NoErr]
    ELSE [decoded |-> NilValue, err |-> Wrap(New("invalid json"), "failed to decode json")]

\* jsonDecoder (revisor.go:432): json.Unmarshal into a generic value
jsonDecoder(b) ==
    IF IsJSONNumber(b) THEN [decoded |-> [kind |-> "number", size |-> Len(b)], err |-> NoErr]
    ELSE IF IsJSONString(b) THEN [decoded |-> [kind |-> "string", size |-> Len(b) - 2], err |-> NoErr]
    ELSE [decoded |-> NilValue, err |-> Wrap(New("invalid json"), "failed to decode json")]

JsonWord == <<"j", "s", "o", "n">>

\* getDecoder looking for 'json' in either case
getDecoder_AnyCase(contentType, b) ==
    IF Contains(contentType, JsonWord) \/ Contains(contentType, <<"J", "S", "O", "N">>)
    THEN jsonDecoder(b)
    ELSE [decoded |-> NilValue, err |-> NewWith("failed to decode as ", contentType)]

\* getDecoder (revisor.go:423) applied to the body
getDecoder(contentType, b) ==
    IF Contains(contentType, JsonWord)
    THEN jsonDecoder(b)
    ELSE [decoded |-> NilValue, err |-> NewWith("failed to decode as ", contentType)]

\* decodeBody (revisor.go:384)
decodeBody(contentType, body) ==
    LET d == getDecoder(contentType, body) IN
    IF d.err # NoErr
    THEN [decoded |-> NilValue, err |-> Wrap(d.err, "failed to decode")]
    ELSE [decoded |-> d.decoded, err |-> NoErr]

\* validate.AgainstSchema (called at revisor.go:135 and :167): a nil schema
\* validates anything; otherwise the decoded value must have the schema's type
AgainstSchema(schema, decoded) ==
    IF ~schema.present THEN NoErr
    ELSE IF schema.type = "integer" /\ decoded.kind # "number"
         THEN NewWith("in body must be of type ", <<"integer">>)
    ELSE IF schema.type = "string" /\ decoded.kind # "string"
         THEN NewWith("in body must be of type ", <<"string">>)
    ELSE NoErr

(***************************************************************************)
(* Body handles (io.ReadCloser).  A reader delivers data[pos+1 .. ]; a     *)
(* reader that fails returns an error once failAt bytes have been          *)
(* delivered, and on every read after that.                                *)
(***************************************************************************)
NoBody == [present |-> FALSE, data |-> <<>>, pos |-> 0, fails |-> FALSE, failAt |-> 0]
Reader(data) == [present |-> TRUE, data |-> data, pos |-> 0, fails |-> FALSE, failAt |-> 0]
FailingReader(data, k) == [present |-> TRUE, data |-> data, pos |-> 0, fails |-> TRUE, failAt |-> k]

\* ioutil.ReadAll(r.Body): the bytes, the error, and the reader afterwards
ReadAll(body) ==
    IF body.fails
    THEN [bytes |-> <<>>, err |-> New("unexpected EOF"),
          body |-> [body EXCEPT !.pos = IF body.failAt > body.pos THEN body.failAt ELSE body.pos]]
    ELSE [bytes |-> SubSeq(body.data, body.pos + 1, Len(body.data)), err |-> NoErr,
          body |-> [body EXCEPT !.pos = Len(body.data)]]

\* readRequestBody leaving the drained reader on the request
readRequestBody_NoReinstall(body) ==
    IF ~body.present THEN [bytes |-> <<>>, err |-> NoErr, body |-> body]
    ELSE LET r == ReadAll(body) IN
         IF r.err # NoErr
         THEN [bytes |-> <<>>, err |-> Wrap(r.err, "error reading request body"), body |-> r.body]
         ELSE [bytes |-> r.bytes, err |-> NoErr, body |-> r.body]

\* readRequestBody (revisor.go:396)
readRequestBody(body) ==
    IF ~body.present THEN [bytes |-> <<>>, err |-> NoErr, body |-> body]
    ELSE LET r == ReadAll(body) IN
         IF r.err # NoErr
         THEN [bytes |-> <<>>, err |-> Wrap(r.err, "error reading request body"), body |-> r.body]
         ELSE [bytes |-> r.bytes, err |-> NoErr, body |-> Reader(r.bytes)]

\* readResponseBody (revisor.go:411)
readResponseBody(body) ==
    IF ~body.present THEN [bytes |-> <<>>, err |-> NoErr, body |-> body]
    ELSE LET r == ReadAll(body) IN
         IF r.err # NoErr
         THEN [bytes |-> <<>>, err |-> Wrap(r.err, "error reading response body"), body |-> r.body]
         ELSE [bytes |-> r.bytes, err |-> NoErr, body |-> Reader(r.bytes)]

\* what a downstream consumer gets when it reads the handle to its end
Replay(body) ==
    IF ~body.present THEN <<>>
    ELSE IF body.fails
         THEN SubSeq(body.data, body.pos + 1, body.failAt)
         ELSE SubSeq(body.data, body.pos + 1, Len(body.data))

(***************************************************************************)
(* The path mapper (mapper.go) over gorilla/mux.  A path is a sequence of  *)
(* characters; the token "{n}" stands for a {name} placeholder, which      *)
(* matches a non-empty run of characters other than the slash.             *)
(***************************************************************************)
Slash == "/"
Placeholder == "{n}"

RECURSIVE MatchFrom(_, _)
MatchFrom(t, p) ==
    IF t = <<>> THEN p = <<>>
    ELSE IF Head(t) = Placeholder
         THEN \E k \in 1..Len(p) :
                 /\ \A i \in 1..k : p[i] # Slash
                 /\ MatchFrom(Tail(t), SubSeq(p, k + 1, Len(p)))
         ELSE p # <<>> /\ Head(p) = Head(t) /\ MatchFrom(Tail(t), Tail(p))

\* mux path matcher under StrictSlash(true): one trailing slash is optional
\* on either side
PathMatches(tmpl, p) ==
    LET core == IF tmpl # <<>> /\ tmpl[Len(tmpl)] = Slash
                THEN SubSeq(tmpl, 1, Len(tmpl) - 1) ELSE tmpl
    IN  \/ MatchFrom(core, p)
        \/ p # <<>> /\ p[Len(p)] = Slash /\ MatchFrom(core, SubSeq(p, 1, Len(p) - 1))

\* the template mux records for a route of the sub-router of PathPrefix(basePath)
RouteTemplate(basePath, tmpl) == TrimRight(basePath, Slash) \o tmpl

\* newSimpleMapper (mapper.go:10): one route per (method, template), each
\* behind the prefix matcher of PathPrefix(basePath)
newSimpleMapper(basePath, templates) ==
    [basePath |-> basePath,
     routes |-> [i \in 1..Len(templates) |->
                    [prefix |-> basePath,
                     method |-> templates[i].method,
                     tmpl |-> RouteTemplate(basePath, templates[i].tmpl)]]]

NoMapper == [basePath |-> EmptyStr, routes |-> <<>>]

\* Router.Match ignoring the method of the request
RECURSIVE FirstRoute_AnyMethod(_, _, _)
FirstRoute_AnyMethod(routes, r, i) ==
    IF i > Len(routes) THEN 0
    ELSE IF /\ HasPrefix(r.path, routes[i].prefix)
            /\ PathMatches(routes[i].tmpl, r.path) THEN i
    ELSE FirstRoute_AnyMethod(routes, r, i + 1)

\* Router.Match: the first registered route whose prefix, method and path
\* all match
RECURSIVE FirstRoute(_, _, _)
FirstRoute(routes, r, i) ==
    IF i > Len(routes) THEN 0
    ELSE IF /\ HasPrefix(r.path, routes[i].prefix)
            /\ routes[i].method = r.method
            /\ PathMatches(routes[i].tmpl, r.path) THEN i
    ELSE FirstRoute(routes, r, i + 1)

\* mapRequest (mapper.go:33)
mapRequest(s, r) ==
    Only({ IF i # 0
           THEN [tmpl |-> TrimPrefix(s.routes[i].tmpl, s.basePath), isSet |-> TRUE]
           ELSE [tmpl |-> EmptyStr, isSet |-> FALSE]
           : i \in { FirstRoute(s.routes, r, 1) } })

(***************************************************************************)
(* Resolution of a request against the document                            *)
(***************************************************************************)
NoPathItem == [parameters |-> <<>>, ops |-> [m \in Methods |-> NoOperation]]

\* getPathDef looking up the path-item without testing the matched flag
getPathDef_NoMatchCheck(a, r) ==
    Only({ IF m.tmpl \notin DOMAIN a.doc.paths
           THEN [pathDef |-> NoPathItem,
                 err |-> New("no path item definition found for path template")]
           ELSE [pathDef |-> a.doc.paths[m.tmpl], err |-> NoErr]
           : m \in { mapRequest(a.mapper, r) } })

\* getPathDef (revisor.go:225)
getPathDef(a, r) ==
    Only({ IF ~m.isSet
           THEN [pathDef |-> NoPathItem,
                 err |-> New("no path template matches current request")]
           ELSE IF m.tmpl \notin DOMAIN a.doc.paths
           THEN [pathDef |-> NoPathItem,
                 err |-> New("no path item definition found for path template")]
           ELSE [pathDef |-> a.doc.paths[m.tmpl], err |-> NoErr]
           : m \in { mapRequest(a.mapper, r) } })

NoDef == [found |-> FALSE, param |-> NoParam]

\* getRequestDef looking for the body parameter on the path-item only
getRequestDef_PathItemOnly(a, r) ==
    Only({
    IF p.err # NoErr
    THEN [def |-> NoDef, consumes |-> <<>>,
          err |-> Wrap(p.err, "failed to get pathItem defintiion")]
    ELSE LET o == operationByMethod(r.method, p.pathDef) IN
         IF o.err # NoErr
         THEN [def |-> NoDef, consumes |-> <<>>,
               err |-> Wrap(o.err, "failed to get operation defintiion")]
         ELSE LET consumes == IF Len(o.operation.consumes) = 0
                              THEN a.doc.consumes
                              ELSE o.operation.consumes
              IN  [def |-> getBodyParameter(p.pathDef.parameters), consumes |-> consumes,
                   err |-> NoErr]
    : p \in { getPathDef(a, r) } })

\* getRequestDef (revisor.go:173)
getRequestDef(a, r) ==
    Only({
    IF p.err # NoErr
    THEN [def |-> NoDef, consumes |-> <<>>,
          err |-> Wrap(p.err, "failed to get pathItem defintiion")]
    ELSE LET o == operationByMethod(r.method, p.pathDef) IN
         IF o.err # NoErr
         THEN [def |-> NoDef, consumes |-> <<>>,
               err |-> Wrap(o.err, "failed to get operation defintiion")]
         ELSE LET own == getBodyParameter(o.operation.parameters)
                  reqBodyParameter == IF ~own.found
                                      THEN getBodyParameter(p.pathDef.parameters)
                                      ELSE own
                  consumes == IF Len(o.operation.consumes) = 0
                              THEN a.doc.consumes
                              ELSE o.operation.consumes
              IN  [def |-> reqBodyParameter, consumes |-> consumes, err |-> NoErr]
    : p \in { getPathDef(a, r) } })

\* getResponseDef appending the document-wide produces to the operation's
getResponseDef_Merged(a, r, s) ==
    Only({
    IF p.err # NoErr
    THEN [response |-> NoResponseDef, produces |-> <<>>, panic |-> FALSE,
          err |-> Wrap(p.err, "failed to get path item defintiion")]
    ELSE LET o == operationByMethod(r.method, p.pathDef) IN
         IF o.err # NoErr
         THEN [response |-> NoResponseDef, produces |-> <<>>, panic |-> FALSE,
               err |-> Wrap(o.err, "response definition not configured")]
         ELSE IF ~s.present
         THEN [response |-> NoResponseDef, produces |-> <<>>, panic |-> TRUE, err |-> NoErr]
         ELSE LET d == responseByStatus(s.statusCode, o.operation) IN
              IF d.err # NoErr
              THEN [response |-> NoResponseDef, produces |-> <<>>, panic |-> FALSE,
                    err |-> Wrap(d.err, "response not valid")]
              ELSE [response |-> d.response,
                    produces |-> o.operation.produces \o a.doc.produces,
                    panic |-> FALSE, err |-> NoErr]
    : p \in { getPathDef(a, r) } })

\* getResponseDef (revisor.go:238).  `panic` is the nil dereference of
\* res.StatusCode when the response is absent.
getResponseDef(a, r, s) ==
    Only({
    IF p.err # NoErr
    THEN [response |-> NoResponseDef, produces |-> <<>>, panic |-> FALSE,
          err |-> Wrap(p.err, "failed to get path item defintiion")]
    ELSE LET o == operationByMethod(r.method, p.pathDef) IN
         IF o.err # NoErr
         THEN [response |-> NoResponseDef, produces |-> <<>>, panic |-> FALSE,
               err |-> Wrap(o.err, "response definition not configured")]
         ELSE IF ~s.present
         THEN [response |-> NoResponseDef, produces |-> <<>>, panic |-> TRUE, err |-> NoErr]
         ELSE LET d == responseByStatus(s.statusCode, o.operation) IN
              IF d.err # NoErr
              THEN [response |-> NoResponseDef, produces |-> <<>>, panic |-> FALSE,
                    err |-> Wrap(d.err, "response not valid")]
              ELSE LET produces == IF Len(o.operation.produces) = 0
                                   THEN a.doc.produces
                                   ELSE o.operation.produces
                   IN  [response |-> d.response, produces |-> produces, panic |-> FALSE,
                        err |-> NoErr]
    : p \in { getPathDef(a, r) } })

(***************************************************************************)
(* The verification functions.  Each returns its error, the body handle    *)
(* it leaves on the request or response, and the values of its locals.     *)
(***************************************************************************)
NoCheck == [called |-> FALSE, schema |-> NoSchema, n |-> 0, err |-> NoErr]
NoMatch == [called |-> FALSE, strict |-> FALSE, header |-> EmptyStr, allowed |-> <<>>,
            out |-> EmptyStr, err |-> NoErr]
NoDecode == [called |-> FALSE, contentType |-> EmptyStr, err |-> NoErr]

Check(schema, n) ==
    [called |-> TRUE, schema |-> schema, n |-> n, err |-> checkIfSchemaOrBodyIsEmpty(schema, n)]

Match(o, header, allowed) ==
    Only({ [called |-> TRUE, strict |-> o.strictContentType, header |-> header,
            allowed |-> allowed, out |-> m.out, err |-> m.err]
           : m \in { matchContentType(o, header, allowed) } })

Decode(contentType, bytes) ==
    [called |-> TRUE, contentType |-> contentType, err |-> decodeBody(contentType, bytes).err]

NoRequestRun ==
    [ran |-> FALSE, err |-> NoErr, body |-> NoBody, resolved |-> FALSE, def |-> NoDef,
     consumes |-> <<>>, read |-> FALSE, readOK |-> FALSE, bytes |-> <<>>,
     check |-> NoCheck, match |-> NoMatch, decode |-> NoDecode]

\* verifyRequest (revisor.go:110)
verifyRequest(a, r) ==
    Only({
    LET b0 == [NoRequestRun EXCEPT !.ran = TRUE, !.body = r.body] IN
    IF q.err # NoErr THEN [b0 EXCEPT !.err = q.err]
    ELSE
    LET b1 == [b0 EXCEPT !.resolved = TRUE, !.def = q.def, !.consumes = q.consumes,
                         !.read = TRUE, !.body = rd.body]
    IN
    IF rd.err # NoErr THEN [b1 EXCEPT !.err = Wrap(rd.err, "failed to verify request")]
    ELSE
    LET b2 == [b1 EXCEPT !.readOK = TRUE, !.bytes = rd.bytes] IN
    IF q.def.found
    THEN LET requestDef == q.def.param
             chk == IF requestDef.required
                    THEN Check(requestDef.schema, Len(rd.bytes))
                    ELSE NoCheck
             b3 == [b2 EXCEPT !.check = chk]
         IN
         IF chk.err # NoErr
         THEN [b3 EXCEPT !.err = Wrap(chk.err, "either defined schema or request body is empty")]
         ELSE
         LET m == Match(a.opts, r.header, q.consumes)
             b4 == [b3 EXCEPT !.match = m]
         IN
         IF m.err # NoErr THEN [b4 EXCEPT !.err = m.err]
         ELSE
         LET d == decodeBody(m.out, rd.bytes)
             b5 == [b4 EXCEPT !.decode = Decode(m.out, rd.bytes)]
         IN
         IF d.err # NoErr THEN [b5 EXCEPT !.err = Wrap(d.err, "failed to decode request")]
         ELSE [b5 EXCEPT !.err = AgainstSchema(requestDef.schema, d.decoded)]
    ELSE IF Len(rd.bytes) # 0
    THEN [b2 EXCEPT !.err =
            New("failed to verify request: definition is not defined but body is not empty")]
    ELSE b2
    : q \in { getRequestDef(a, r) }, rd \in { readRequestBody(r.body) } })

NoResponseRun ==
    [ran |-> FALSE, err |-> NoErr, panic |-> FALSE, body |-> NoBody, resolved |-> FALSE,
     response |-> NoResponseDef, produces |-> <<>>, read |-> FALSE, readOK |-> FALSE,
     bytes |-> <<>>, check |-> NoCheck, match |-> NoMatch, decode |-> NoDecode]

\* verifyResponse matching the content type before the emptiness rule
verifyResponse_MatchFirst(a, s, r) ==
    Only({
    LET b0 == [NoResponseRun EXCEPT !.ran = TRUE, !.body = s.body] IN
    IF q.panic THEN [b0 EXCEPT !.panic = TRUE]
    ELSE
    IF q.err # NoErr THEN [b0 EXCEPT !.err = q.err]
    ELSE
    LET b1 == [b0 EXCEPT !.resolved = TRUE, !.response = q.response, !.produces = q.produces,
                         !.read = TRUE, !.body = rd.body]
    IN
    IF rd.err # NoErr THEN [b1 EXCEPT !.err = Wrap(rd.err, "response not valid")]
    ELSE
    LET m == Match(a.opts, s.header, q.produces)
        b2 == [b1 EXCEPT !.readOK = TRUE, !.bytes = rd.bytes, !.match = m]
    IN
    IF m.err # NoErr THEN [b2 EXCEPT !.err = m.err]
    ELSE
    LET chk == Check(q.response.schema, Len(rd.bytes))
        b3 == [b2 EXCEPT !.check = chk]
    IN
    IF chk.err # NoErr
    THEN [b3 EXCEPT !.err = Wrap(chk.err, "either defined schema or response body is empty")]
    ELSE
    LET d == decodeBody(m.out, rd.bytes)
        b4 == [b3 EXCEPT !.decode = Decode(m.out, rd.bytes)]
    IN
    IF d.err # NoErr THEN [b4 EXCEPT !.err = Wrap(d.err, "failed to decode response")]
    ELSE [b4 EXCEPT !.err = AgainstSchema(q.response.schema, d.decoded)]
    : q \in { getResponseDef(a, r, s) }, rd \in { readResponseBody(s.body) } })

\* verifyResponse (revisor.go:145)
verifyResponse(a, s, r) ==
    Only({
    LET b0 == [NoResponseRun EXCEPT !.ran = TRUE, !.body = s.body] IN
    IF q.panic THEN [b0 EXCEPT !.panic = TRUE]
    ELSE
    IF q.err # NoErr THEN [b0 EXCEPT !.err = q.err]
    ELSE
    LET b1 == [b0 EXCEPT !.resolved = TRUE, !.response = q.response, !.produces = q.produces,
                         !.read = TRUE, !.body = rd.body]
    IN
    IF rd.err # NoErr THEN [b1 EXCEPT !.err = Wrap(rd.err, "response not valid")]
    ELSE
    LET chk == Check(q.response.schema, Len(rd.bytes))
        b2 == [b1 EXCEPT !.readOK = TRUE, !.bytes = rd.bytes, !.check = chk]
    IN
    IF chk.err # NoErr
    THEN [b2 EXCEPT !.err = Wrap(chk.err, "either defined schema or response body is empty")]
    ELSE
    LET m == Match(a.opts, s.header, q.produces)
        b3 == [b2 EXCEPT !.match = m]
    IN
    IF m.err # NoErr THEN [b3 EXCEPT !.err = m.err]
    ELSE
    LET d == decodeBody(m.out, rd.bytes)
        b4 == [b3 EXCEPT !.decode = Decode(m.out, rd.bytes)]
    IN
    IF d.err # NoErr THEN [b4 EXCEPT !.err = Wrap(d.err, "failed to decode response")]
    ELSE [b4 EXCEPT !.err = AgainstSchema(q.response.schema, d.decoded)]
    : q \in { getResponseDef(a, r, s) }, rd \in { readResponseBody(s.body) } })

\* verifyRequestAndReponse with the status test written `<= 400`
verifyRequestAndReponse_StatusLe400(a, s, r) ==
    Only({
    Only({
    LET first == IF rq.err = NoErr THEN NoErr
                 ELSE IF s.present /\ s.statusCode <= 400
                      THEN Wrap(rq.err, "request validation failed but response status code is ok")
                      ELSE Wrap(rq.err, "request validation failed")
        report == IF rs.err # NoErr THEN Wrap(rs.err, "response validation failed") ELSE first
    IN  [report |-> IF rs.panic THEN NoErr ELSE report, panic |-> rs.panic,
         request |-> rq, response |-> rs]
    : rs \in { verifyResponse(a, s, [r EXCEPT !.body = rq.body]) } })
    : rq \in { verifyRequest(a, r) } })

\* verifyRequestAndReponse keeping the request verdict when both sides fail
verifyRequestAndReponse_RequestFirst(a, s, r) ==
    Only({
    Only({
    LET first == IF rq.err = NoErr THEN NoErr
                 ELSE IF s.present /\ s.statusCode < 400
                      THEN Wrap(rq.err, "request validation failed but response status code is ok")
                      ELSE Wrap(rq.err, "request validation failed")
        report == IF rs.err # NoErr /\ first = NoErr
                  THEN Wrap(rs.err, "response validation failed") ELSE first
    IN  [report |-> IF rs.panic THEN NoErr ELSE report, panic |-> rs.panic,
         request |-> rq, response |-> rs]
    : rs \in { verifyResponse(a, s, [r EXCEPT !.body = rq.body]) } })
    : rq \in { verifyRequest(a, r) } })

\* verifyRequestAndReponse reporting the request failure without its cause
verifyRequestAndReponse_NoCause(a, s, r) ==
    Only({
    Only({
    LET first == IF rq.err = NoErr THEN NoErr
                 ELSE IF s.present /\ s.statusCode < 400
                      THEN New("request validation failed but response status code is ok")
                      ELSE New("request validation failed")
        report == IF rs.err # NoErr THEN Wrap(rs.err, "response validation failed") ELSE first
    IN  [report |-> IF rs.panic THEN NoErr ELSE report, panic |-> rs.panic,
         request |-> rq, response |-> rs]
    : rs \in { verifyResponse(a, s, [r EXCEPT !.body = rq.body]) } })
    : rq \in { verifyRequest(a, r) } })

\* verifyRequestAndReponse returning early, and nil, when the request fails
verifyRequestAndReponse_Swallow(a, s, r) ==
    Only({
    Only({
    LET report == IF rq.err # NoErr THEN NoErr
                  ELSE IF rs.err # NoErr THEN Wrap(rs.err, "response validation failed")
                  ELSE NoErr
    IN  [report |-> IF rs.panic THEN NoErr ELSE report, panic |-> rs.panic,
         request |-> rq, response |-> rs]
    : rs \in { verifyResponse(a, s, [r EXCEPT !.body = rq.body]) } })
    : rq \in { verifyRequest(a, r) } })

\* verifyRequestAndReponse (revisor.go:271)
verifyRequestAndReponse(a, s, r) ==
    Only({
    Only({
    LET first == IF rq.err = NoErr THEN NoErr
                 ELSE IF s.present /\ s.statusCode < 400
                      THEN Wrap(rq.err, "request validation failed but response status code is ok")
                      ELSE Wrap(rq.err, "request validation failed")
        report == IF rs.err # NoErr THEN Wrap(rs.err, "response validation failed") ELSE first
    IN  [report |-> IF rs.panic THEN NoErr ELSE report, panic |-> rs.panic,
         request |-> rq, response |-> rs]
    : rs \in { verifyResponse(a, s, [r EXCEPT !.body = rq.body]) } })
    : rq \in { verifyRequest(a, r) } })

(***************************************************************************)
(* Documents, requests and responses the model ranges over                *)
(***************************************************************************)
AppJson == <<"a", "/", "j", "s", "o", "n">>
AppXml == <<"a", "/", "x">>
PaddedJson == <<Space>> \o AppJson
UpperJson == <<"a", "/", "J", "S", "O", "N">>

\* declared consumes / produces lists; a document pairs two different ones
MimePairs ==
    { << <<>>, <<AppJson>> >>,
      << <<AppJson>>, <<>> >>,
      << <<AppXml, PaddedJson>>, <<JsonWord>> >>,
      << <<JsonWord>>, <<AppXml, PaddedJson>> >> }

BasePaths == { EmptyStr, <<Slash, "v">> }

TplUser == <<Slash, "u", Slash, Placeholder>>

PathParam == Param("path", TRUE, NoSchema)

\* the operations of /u/{n}: GET takes no body; PUT requires a body with a
\* schema; POST takes an optional body with a schema and declares its own
\* MIME lists; DELETE requires a body without schema; PATCH takes an
\* optional body without schema; OPTIONS and HEAD are not declared
UserOps ==
    [m \in Methods |->
        CASE m = "GET" ->
               Operation(<<PathParam>>, <<>>, <<>>, ResponseDef(Schema("string")),
                         (200 :> ResponseDef(Schema("integer"))) @@ (404 :> ResponseDef(NoSchema)))
          [] m = "PUT" ->
               Operation(<<PathParam, Param("body", TRUE, Schema("integer"))>>, <<>>, <<>>,
                         NoResponseDef, (200 :> ResponseDef(Schema("integer"))))
          [] m = "POST" ->
               Operation(<<Param("body", FALSE, Schema("string")), PathParam>>,
                         <<AppJson>>, <<AppJson>>, ResponseDef(NoSchema), <<>>)
          [] m = "DELETE" ->
               Operation(<<PathParam, Param("body", TRUE, NoSchema)>>, <<>>, <<>>,
                         ResponseDef(NoSchema), <<>>)
          [] m = "PATCH" ->
               Operation(<<Param("body", FALSE, NoSchema)>>, <<>>, <<>>,
                         ResponseDef(Schema("integer")), <<>>)
          [] OTHER -> NoOperation]

Doc(basePath, mimes) ==
    [basePath |-> basePath, consumes |-> mimes[1], produces |-> mimes[2],
     paths |-> (TplUser :> [parameters |-> <<>>, ops |-> UserOps])]

Docs == { Doc(b, m) : b \in BasePaths, m \in MimePairs }

RECURSIVE SeqsUpTo(_, _)
SeqsUpTo(S, n) ==
    IF n = 0 THEN { <<>> }
    ELSE LET shorter == SeqsUpTo(S, n - 1) IN
         shorter \cup { Append(q, x) : q \in shorter, x \in S }

Contents == SeqsUpTo(Bytes, MaxBodyLen)

\* body handles a caller can supply: none, a reader over any content, or a
\* reader that breaks before the last byte of a non-empty content
Bodies ==
    {NoBody} \cup { Reader(b) : b \in Contents }
             \cup { FailingReader(b, Len(b) - 1) : b \in Contents \ { <<>> } }

ReqMethods == {"GET", "PUT", "POST", "DELETE", "PATCH", "HEAD"}
ReqPaths == { <<Slash, "u", Slash, "7">>, <<Slash, "v", Slash, "u", Slash, "7">> }
ReqHeaders == { EmptyStr, AppJson, <<Space>> \o AppJson \o <<Space>>,
                AppJson \o <<";", "c">>, UpperJson, AppXml }

Requests == [method : ReqMethods, path : ReqPaths, header : ReqHeaders, body : Bodies]

NilResponse == [present |-> FALSE, statusCode |-> 0, header |-> EmptyStr, body |-> NoBody]
\* 200 and 404 are declared by GET (404 without schema); 400 falls to a default
StatusCodes == {200, 400, 404}
ResHeaders == { EmptyStr, AppJson, AppXml }

Responses ==
    {NilResponse} \cup
    [present : {TRUE}, statusCode : StatusCodes, header : ResHeaders, body : Bodies]

\* the exchanges of the combined verifier: a GET or PUT of /u/7 sent as
\* JSON and answered by no response or by a JSON response, at least one of
\* the two bodies being absent or the single digit
PlainBodies == { NoBody, Reader(<<Digit>>) }

ExchangeRequests ==
    { r \in Requests : /\ r.method \in {"GET", "PUT"}
                       /\ r.path = <<Slash, "u", Slash, "7">>
                       /\ r.header = AppJson }

ExchangeResponses == { s \in Responses : ~s.present \/ s.header = AppJson }

Exchanges ==
    { e \in ExchangeRequests \X ExchangeResponses :
        e[1].body \in PlainBodies \/ e[2].body \in PlainBodies }

(***************************************************************************)
(* State                                                                   *)
(***************************************************************************)
NoRet == [call |-> "none", err |-> NoErr, request |-> NoRequestRun, response |-> NoResponseRun]

\* withDefaults (revisor.go:93)
withDefaults == [strictContentType |-> TRUE, ignoreBasePath |-> FALSE]

\* the verifier the callables are bound to
Verifier == [doc |-> doc, opts |-> opts, mapper |-> mapper]

\* newAPIVerifier (revisor.go:77) has loaded document d; the caller holds r and s
Start(d, r, s) ==
    /\ pc = "new"
    /\ doc = d
    /\ opts = withDefaults
    /\ mapper = NoMapper
    /\ req = r
    /\ res = s
    /\ orig = [req |-> Replay(r.body), res |-> Replay(s.body)]
    /\ ret = NoRet

Init ==
    \E d \in { x \in Docs : x.basePath = EmptyStr }, e \in Exchanges : Start(d, e[1], e[2])

InitRequest == \E d \in Docs, r \in Requests : Start(d, r, NilResponse)

(***************************************************************************)
(* Construction: setOptions, then initMapper                               *)
(***************************************************************************)
\* NoStrictContentType (revisor.go:36)
NoStrictContentType ==
    /\ pc = "new"
    /\ opts' = [opts EXCEPT !.strictContentType = FALSE]
    /\ UNCHANGED <<pc, doc, mapper, req, res, orig, ret>>

\* IgnoreBasePath (revisor.go:42)
IgnoreBasePath ==
    /\ pc = "new"
    /\ opts' = [opts EXCEPT !.ignoreBasePath = TRUE]
    /\ UNCHANGED <<pc, doc, mapper, req, res, orig, ret>>

\* the orders in which Go may enumerate the keys of a map
Orders(S) ==
    { f \in [1..Cardinality(S) -> S] : \A i, j \in 1..Cardinality(S) : f[i] = f[j] => i = j }

MethodOrder == <<"GET", "PUT", "POST", "DELETE", "OPTIONS", "HEAD", "PATCH">>

\* requestsMap filled with every path under every method, whether the
\* path-item declares the operation or not
RECURSIVE TemplatesOf_AllMethods(_, _, _, _)
TemplatesOf_AllMethods(d, order, mi, pi) ==
    IF mi > Len(MethodOrder) THEN <<>>
    ELSE IF pi > Len(order) THEN TemplatesOf_AllMethods(d, order, mi + 1, 1)
    ELSE << [method |-> MethodOrder[mi], tmpl |-> order[pi]] >>
         \o TemplatesOf_AllMethods(d, order, mi, pi + 1)

RECURSIVE TemplatesOf(_, _, _, _)
\* the (method, template) pairs of requestsMap, method by method, each
\* method's templates in the order the paths were enumerated
TemplatesOf(d, order, mi, pi) ==
    IF mi > Len(MethodOrder) THEN <<>>
    ELSE IF pi > Len(order) THEN TemplatesOf(d, order, mi + 1, 1)
    ELSE LET rest == TemplatesOf(d, order, mi, pi + 1) IN
         IF d.paths[order[pi]].ops[MethodOrder[mi]].present
         THEN << [method |-> MethodOrder[mi], tmpl |-> order[pi]] >> \o rest
         ELSE rest

\* initMapper (revisor.go:352)
initMapper(d, o, order) ==
    newSimpleMapper(IF o.ignoreBasePath THEN EmptyStr ELSE d.basePath,
                    TemplatesOf(d, order, 1, 1))

InitMapper ==
    /\ pc = "new"
    /\ \E order \in Orders(DOMAIN doc.paths) : mapper' = initMapper(doc, opts, order)
    /\ pc' = "ready"
    /\ UNCHANGED <<doc, opts, req, res, orig, ret>>

(***************************************************************************)
(* The callables                                                           *)
(***************************************************************************)
VerifyRequest ==
    /\ pc = "ready"
    /\ \E v \in {verifyRequest(Verifier, req)} :
       /\ req' = [req EXCEPT !.body = v.body]
       /\ ret' = [call |-> "verifyRequest", err |-> v.err,
                  request |-> v, response |-> NoResponseRun]
    /\ UNCHANGED <<pc, doc, opts, mapper, res, orig>>

\* verifyResponse switching the verifier to relaxed content types as it runs
VerifyResponse_Relaxes ==
    /\ pc = "ready"
    /\ \E v \in {verifyResponse(Verifier, res, req)} :
       /\ res' = [res EXCEPT !.body = v.body]
       /\ ret' = [call |-> "verifyResponse", err |-> v.err,
                  request |-> NoRequestRun, response |-> v]
       /\ pc' = IF v.panic THEN "panic" ELSE "ready"
    /\ opts' = [opts EXCEPT !.strictContentType = FALSE]
    /\ UNCHANGED <<doc, mapper, req, orig>>

VerifyResponse ==
    /\ pc = "ready"
    /\ \E v \in {verifyResponse(Verifier, res, req)} :
       /\ res' = [res EXCEPT !.body = v.body]
       /\ ret' = [call |-> "verifyResponse", err |-> v.err,
                  request |-> NoRequestRun, response |-> v]
       /\ pc' = IF v.panic THEN "panic" ELSE "ready"
    /\ UNCHANGED <<doc, opts, mapper, req, orig>>

VerifyRequestAndReponse ==
    /\ pc = "ready"
    /\ \E v \in {verifyRequestAndReponse(Verifier, res, req)} :
       /\ req' = [req EXCEPT !.body = v.request.body]
       /\ res' = [res EXCEPT !.body = v.response.body]
       /\ ret' = [call |-> "verifyRequestAndReponse", err |-> v.report,
                  request |-> v.request, response |-> v.response]
       /\ pc' = IF v.panic THEN "panic" ELSE "ready"
    /\ UNCHANGED <<doc, opts, mapper, orig>>

Next ==
    \/ NoStrictContentType
    \/ IgnoreBasePath
    \/ InitMapper
    \/ VerifyRequest
    \/ VerifyResponse
    \/ VerifyRequestAndReponse

Spec == Init /\ [][Next]_vars

NextRequest ==
    \/ NoStrictContentType
    \/ IgnoreBasePath
    \/ InitMapper
    \/ VerifyRequest

SpecRequest == InitRequest /\ [][NextRequest]_vars

(***************************************************************************)
(* The content-type matcher on its own: every header value of             *)
(* MatchHeaders against every declared list of MatchLists, in both modes   *)
(***************************************************************************)
MatchEntries == { AppJson, PaddedJson, AppXml, JsonWord, EmptyStr }
MatchLists == SeqsUpTo(MatchEntries, 2)
MatchHeaders == ReqHeaders \cup { PaddedJson, <<Space>>, <<Space>> \o AppXml }

InitMatch ==
    \E h \in MatchHeaders, allowed \in MatchLists :
        Start(Doc(EmptyStr, <<allowed, <<>> >>),
              [method |-> "GET", path |-> <<Slash, "u", Slash, "7">>, header |-> h,
               body |-> NoBody],
              NilResponse)

\* matchContentType (revisor.go:194) applied to the header of the request
\* and the consumes list of the document, under the options in force
MatchContentType ==
    /\ \E m \in { Match(opts, req.header, doc.consumes) } :
         ret' = [call |-> "matchContentType", err |-> m.err,
                 request |-> [NoRequestRun EXCEPT !.match = m],
                 response |-> NoResponseRun]
    /\ UNCHANGED <<pc, doc, opts, mapper, req, res, orig>>

NextMatch ==
    \/ NoStrictContentType
    \/ MatchContentType

SpecMatch == InitMatch /\ [][NextMatch]_vars

(***************************************************************************)
(* Resolution on its own: documents with two path templates, one with a   *)
(* literal and one with a placeholder in the same position, path-item      *)
(* parameters and several base paths; requests given by method and path,   *)
(* responses by status code                                                *)
(***************************************************************************)
TplLogin == <<Slash, "u", Slash, "l">>

\* the operations of /u/l: GET declares its own produces and the status
\* 200 only; POST lists two body parameters after a header parameter
LoginOps ==
    [m \in Methods |->
        CASE m = "GET" ->
               Operation(<<Param("query", TRUE, Schema("string"))>>, <<>>, <<AppXml>>,
                         NoResponseDef, (200 :> ResponseDef(NoSchema)))
          [] m = "POST" ->
               Operation(<<Param("header", TRUE, Schema("string")),
                           Param("body", TRUE, Schema("integer")),
                           Param("body", FALSE, NoSchema)>>,
                         <<>>, <<>>, ResponseDef(Schema("string")), <<>>)
          [] OTHER -> NoOperation]

\* parameters declared on a path-item: none, or a formData parameter
\* followed by two body parameters
ItemParams ==
    { <<>>,
      <<Param("formData", TRUE, Schema("integer")),
        Param("body", FALSE, Schema("string")),
        Param("body", TRUE, NoSchema)>> }

ResolveBasePaths == { EmptyStr, <<Slash>>, <<Slash, "v">>, <<Slash, "v", Slash>> }

ResolveMimes ==
    { << <<>>, <<AppJson>> >>, << <<AppXml, PaddedJson>>, <<JsonWord>> >> }

ResolveDoc(basePath, mimes, params, withLogin) ==
    [basePath |-> basePath, consumes |-> mimes[1], produces |-> mimes[2],
     paths |-> IF withLogin
               THEN (TplUser :> [parameters |-> params, ops |-> UserOps])
                    @@ (TplLogin :> [parameters |-> <<>>, ops |-> LoginOps])
               ELSE (TplUser :> [parameters |-> params, ops |-> UserOps])]

ResolveDocs ==
    { ResolveDoc(b, m, ps, l) :
        b \in ResolveBasePaths, m \in ResolveMimes, ps \in ItemParams, l \in BOOLEAN }

ResolvePaths ==
    { <<Slash, "u", Slash, "7">>, <<Slash, "u", Slash, "l">>,
      <<Slash, "u", Slash, "7", Slash>>, <<Slash, "x">>,
      <<Slash, "v", Slash, "u", Slash, "7">>, <<Slash, "v", Slash, "u", Slash, "l">>,
      <<Slash, "v", "u", Slash, "7">> }

ResolveRequests ==
    [method : ReqMethods, path : ResolvePaths, header : {EmptyStr}, body : {NoBody}]

ResolveResponses ==
    {NilResponse} \cup
    [present : {TRUE}, statusCode : StatusCodes, header : {EmptyStr}, body : {NoBody}]

InitResolve ==
    \E d \in ResolveDocs, r \in ResolveRequests, s \in ResolveResponses : Start(d, r, s)

\* mapRequest (mapper.go:33) on the request
MapRequest ==
    /\ pc = "ready"
    /\ ret' = [call |-> "mapRequest", err |-> NoErr, out |-> mapRequest(mapper, req)]
    /\ UNCHANGED <<pc, doc, opts, mapper, req, res, orig>>

\* getPathDef (revisor.go:225) on the request
GetPathDef ==
    /\ pc = "ready"
    /\ \E v \in { getPathDef(Verifier, req) } :
         ret' = [call |-> "getPathDef", err |-> v.err, out |-> v]
    /\ UNCHANGED <<pc, doc, opts, mapper, req, res, orig>>

\* getRequestDef (revisor.go:173) on the request
GetRequestDef ==
    /\ pc = "ready"
    /\ \E v \in { getRequestDef(Verifier, req) } :
         ret' = [call |-> "getRequestDef", err |-> v.err, out |-> v]
    /\ UNCHANGED <<pc, doc, opts, mapper, req, res, orig>>

\* getResponseDef (revisor.go:238) on the request and the response
GetResponseDef ==
    /\ pc = "ready"
    /\ \E v \in { getResponseDef(Verifier, req, res) } :
         /\ ret' = [call |-> "getResponseDef", err |-> v.err, out |-> v]
         /\ pc' = IF v.panic THEN "panic" ELSE "ready"
    /\ UNCHANGED <<doc, opts, mapper, req, res, orig>>

NextResolve ==
    \/ IgnoreBasePath
    \/ InitMapper
    \/ MapRequest
    \/ GetPathDef
    \/ GetRequestDef
    \/ GetResponseDef

SpecResolve == InitResolve /\ [][NextResolve]_vars

(***************************************************************************)
(* verifyRequest and verifyResponse over documents with one or two path    *)
(* templates and no base path: either a full request with no response, or  *)
(* a bare request with a full response                                     *)
(***************************************************************************)
VerifyMimes ==
    { << <<>>, <<>> >>,
      << <<AppXml, PaddedJson>>, <<AppXml, PaddedJson>> >>,
      << <<UpperJson>>, <<UpperJson>> >> }

VerifyDocs == { ResolveDoc(EmptyStr, m, <<>>, l) : m \in VerifyMimes, l \in BOOLEAN }

VerifyPaths == { <<Slash, "u", Slash, "7">>, <<Slash, "u", Slash, "l">>, <<Slash, "x">> }

VerifyHeaders == { EmptyStr, AppJson, AppXml, UpperJson }

\* no body, an empty body, a JSON number, a JSON string, and a lone quote,
\* which is not JSON
VerifyBodies ==
    { NoBody, Reader(<<>>), Reader(<<Digit>>), Reader(<<Quote, Quote>>), Reader(<<Quote>>) }

VerifyRequests ==
    [method : ReqMethods, path : VerifyPaths, header : VerifyHeaders, body : VerifyBodies]

VerifyResponses ==
    [present : {TRUE}, statusCode : StatusCodes, header : VerifyHeaders, body : VerifyBodies]

InitVerify ==
    \/ \E d \in VerifyDocs, r \in VerifyRequests : Start(d, r, NilResponse)
    \/ \E d \in VerifyDocs, r \in VerifyRequests, s \in VerifyResponses :
          r.header = EmptyStr /\ r.body = NoBody /\ Start(d, r, s)

NextVerify ==
    \/ NoStrictContentType
    \/ InitMapper
    \/ VerifyRequest
    \/ VerifyResponse

SpecVerify == InitVerify /\ [][NextVerify]_vars

(***************************************************************************)
(* Verifications running concurrently on one verifier.  Each process calls *)
(* verifyRequest or verifyResponse on handles of its own and advances in   *)
(* three steps: it resolves the definition (reading a.mapper and a.doc),   *)
(* reads the body (replacing the body of its handle), and computes the     *)
(* verdict (reading a.opts).  In this specification pc, req, res, orig and *)
(* ret hold one value per process.                                         *)
(***************************************************************************)
Procs == {"p1", "p2"}

ConcurrentDoc == ResolveDoc(EmptyStr, << <<PaddedJson>>, <<PaddedJson>> >>, <<>>, FALSE)

BareRequest(method) ==
    [method |-> method, path |-> <<Slash, "u", Slash, "7">>, header |-> EmptyStr,
     body |-> NoBody]

\* the calls a process may make: verifyRequest on a GET or PUT sent as JSON,
\* or verifyResponse on a JSON answer to a GET
ConcurrentCalls ==
    { [call |-> "verifyRequest", req |-> [BareRequest(m) EXCEPT !.header = AppJson, !.body = b],
       res |-> NilResponse] :
         m \in {"GET", "PUT"},
         b \in {NoBody, Reader(<<Digit>>), Reader(<<Quote>>), FailingReader(<<Digit>>, 0)} }
    \cup
    { [call |-> "verifyResponse", req |-> BareRequest("GET"),
       res |-> [present |-> TRUE, statusCode |-> c, header |-> AppJson, body |-> b]] :
         c \in {200, 404},
         b \in {NoBody, Reader(<<Digit>>), Reader(<<Quote, Quote>>)} }

NoLocals == [err |-> NoErr, def |-> NoDef, response |-> NoResponseDef, allowed |-> <<>>,
             bytes |-> <<>>]

\* the verifier is constructed, with or without NoStrictContentType
InitConcurrent ==
    /\ doc = ConcurrentDoc
    /\ \E strict \in BOOLEAN : opts = [withDefaults EXCEPT !.strictContentType = strict]
    /\ \E order \in Orders(DOMAIN ConcurrentDoc.paths) :
          mapper = initMapper(ConcurrentDoc, withDefaults, order)
    /\ orig \in [Procs -> ConcurrentCalls]
    /\ req = [p \in Procs |-> orig[p].req]
    /\ res = [p \in Procs |-> orig[p].res]
    /\ pc = [p \in Procs |-> "start"]
    /\ ret = [p \in Procs |-> NoLocals]

\* verifyRequest after the body is read (revisor.go:119-140)
requestVerdict(a, r, def, consumes, body) ==
    IF def.found
    THEN LET requestDef == def.param
             chk == IF requestDef.required
                    THEN checkIfSchemaOrBodyIsEmpty(requestDef.schema, Len(body))
                    ELSE NoErr
         IN  IF chk # NoErr
             THEN Wrap(chk, "either defined schema or request body is empty")
             ELSE LET m == matchContentType(a.opts, r.header, consumes) IN
                  IF m.err # NoErr THEN m.err
                  ELSE LET d == decodeBody(m.out, body) IN
                       IF d.err # NoErr THEN Wrap(d.err, "failed to decode request")
                       ELSE AgainstSchema(requestDef.schema, d.decoded)
    ELSE IF Len(body) # 0
    THEN New("failed to verify request: definition is not defined but body is not empty")
    ELSE NoErr

\* verifyResponse after the body is read (revisor.go:154-167)
responseVerdict(a, s, response, produces, body) ==
    LET chk == checkIfSchemaOrBodyIsEmpty(response.schema, Len(body)) IN
    IF chk # NoErr
    THEN Wrap(chk, "either defined schema or response body is empty")
    ELSE LET m == matchContentType(a.opts, s.header, produces) IN
         IF m.err # NoErr THEN m.err
         ELSE LET d == decodeBody(m.out, body) IN
              IF d.err # NoErr THEN Wrap(d.err, "failed to decode response")
              ELSE AgainstSchema(response.schema, d.decoded)

\* verifyRequest, revisor.go:111-114
ResolveRequest(p) ==
    /\ pc[p] = "start"
    /\ orig[p].call = "verifyRequest"
    /\ \E q \in { getRequestDef(Verifier, req[p]) } :
         /\ ret' = [ret EXCEPT ![p] = [@ EXCEPT !.err = q.err, !.def = q.def,
                                                !.allowed = q.consumes]]
         /\ pc' = [pc EXCEPT ![p] = IF q.err # NoErr THEN "done" ELSE "resolved"]
    /\ UNCHANGED <<doc, opts, mapper, req, res, orig>>

\* the read whose bytes land in the locals of every process
ReadRequest_SharedBuffer(p) ==
    /\ pc[p] = "resolved"
    /\ orig[p].call = "verifyRequest"
    /\ \E rd \in { readRequestBody(req[p].body) } :
         /\ req' = [req EXCEPT ![p].body = rd.body]
         /\ ret' = [q \in Procs |->
                      IF q = p
                      THEN [ret[q] EXCEPT !.err = Wrap(rd.err, "failed to verify request"),
                                          !.bytes = rd.bytes]
                      ELSE [ret[q] EXCEPT !.bytes = rd.bytes]]
         /\ pc' = [pc EXCEPT ![p] = IF rd.err # NoErr THEN "done" ELSE "read"]
    /\ UNCHANGED <<doc, opts, mapper, res, orig>>

\* verifyRequest, revisor.go:115-118
ReadRequest(p) ==
    /\ pc[p] = "resolved"
    /\ orig[p].call = "verifyRequest"
    /\ \E rd \in { readRequestBody(req[p].body) } :
         /\ req' = [req EXCEPT ![p].body = rd.body]
         /\ ret' = [ret EXCEPT ![p] = [@ EXCEPT !.err = Wrap(rd.err, "failed to verify request"),
                                                !.bytes = rd.bytes]]
         /\ pc' = [pc EXCEPT ![p] = IF rd.err # NoErr THEN "done" ELSE "read"]
    /\ UNCHANGED <<doc, opts, mapper, res, orig>>

\* verifyRequest, revisor.go:119-140
FinishRequest(p) ==
    /\ pc[p] = "read"
    /\ orig[p].call = "verifyRequest"
    /\ ret' = [ret EXCEPT ![p].err =
                  requestVerdict(Verifier, req[p], ret[p].def, ret[p].allowed, ret[p].bytes)]
    /\ pc' = [pc EXCEPT ![p] = "done"]
    /\ UNCHANGED <<doc, opts, mapper, req, res, orig>>

\* verifyResponse, revisor.go:146-149
ResolveResponse(p) ==
    /\ pc[p] = "start"
    /\ orig[p].call = "verifyResponse"
    /\ \E q \in { getResponseDef(Verifier, req[p], res[p]) } :
         /\ ret' = [ret EXCEPT ![p] = [@ EXCEPT !.err = q.err, !.response = q.response,
                                                !.allowed = q.produces]]
         /\ pc' = [pc EXCEPT ![p] = IF q.panic THEN "panic"
                                    ELSE IF q.err # NoErr THEN "done" ELSE "resolved"]
    /\ UNCHANGED <<doc, opts, mapper, req, res, orig>>

\* verifyResponse, revisor.go:150-153
ReadResponse(p) ==
    /\ pc[p] = "resolved"
    /\ orig[p].call = "verifyResponse"
    /\ \E rd \in { readResponseBody(res[p].body) } :
         /\ res' = [res EXCEPT ![p].body = rd.body]
         /\ ret' = [ret EXCEPT ![p] = [@ EXCEPT !.err = Wrap(rd.err, "response not valid"),
                                                !.bytes = rd.bytes]]
         /\ pc' = [pc EXCEPT ![p] = IF rd.err # NoErr THEN "done" ELSE "read"]
    /\ UNCHANGED <<doc, opts, mapper, req, orig>>

\* verifyResponse, revisor.go:154-167
FinishResponse(p) ==
    /\ pc[p] = "read"
    /\ orig[p].call = "verifyResponse"
    /\ ret' = [ret EXCEPT ![p].err =
                  responseVerdict(Verifier, res[p], ret[p].response, ret[p].allowed,
                                  ret[p].bytes)]
    /\ pc' = [pc EXCEPT ![p] = "done"]
    /\ UNCHANGED <<doc, opts, mapper, req, res, orig>>

NextConcurrent ==
    \E p \in Procs :
        \/ ResolveRequest(p)
        \/ ReadRequest(p)
        \/ FinishRequest(p)
        \/ ResolveResponse(p)
        \/ ReadResponse(p)
        \/ FinishResponse(p)

SpecConcurrent == InitConcurrent /\ [][NextConcurrent]_vars

(***************************************************************************)
(* Properties                                                              *)
(***************************************************************************)
\* the last call was the combined verifier and it returned
Combined == ret.call = "verifyRequestAndReponse" /\ pc # "panic"

E(msg) == [msg |-> msg, arg |-> <<>>]

\* C1: after any verification call, on every exit path, the request body
\* and the response body can each be read again and yield exactly the bytes
\* that were originally supplied.
C1_BodyReplay ==
    ret.call # "none" =>
        /\ Replay(req.body) = orig.req
        /\ Replay(res.body) = orig.res

\* C2: in the combined verifier, when verifyRequest fails and verifyResponse
\* succeeds, the returned error is the request failure wrapped once: as
\* 'request validation failed but response status code is ok' exactly when
\* the status is below 400, and as 'request validation failed' otherwise.
C2_RequestFailureWrapped ==
    (Combined /\ ret.request.err # NoErr /\ ret.response.err = NoErr) =>
        /\ ret.err # NoErr
        /\ Tail(ret.err) = ret.request.err
        /\ res.statusCode < 400 =>
             Head(ret.err) = E("request validation failed but response status code is ok")
        /\ res.statusCode >= 400 => Head(ret.err) = E("request validation failed")

\* a failed request answered by a verified response with status 400
C2_Witness ==
    /\ Combined
    /\ ret.request.err # NoErr
    /\ ret.response.err = NoErr
    /\ res.statusCode = 400
    /\ Head(ret.err) = E("request validation failed")

\* C3: in the combined verifier, whenever verifyResponse fails the returned
\* error is the response failure wrapped as 'response validation failed',
\* whether or not verifyRequest failed and whatever the status code.
C3_ResponseFailureSurfaced ==
    (Combined /\ ret.response.err # NoErr) =>
        ret.err = <<E("response validation failed")>> \o ret.response.err

\* both sides failed, with a status below 400
C3_Witness ==
    /\ Combined
    /\ ret.request.err # NoErr
    /\ ret.response.err # NoErr
    /\ res.present
    /\ res.statusCode < 400
    /\ Head(ret.err) = E("response validation failed")

\* C4 as stated: whenever verifyRequest fails and the status is below 400,
\* the chain of the returned error contains the request failure, also when
\* verifyResponse fails too.
C4_RequestFailureAlwaysCarried ==
    (Combined /\ ret.request.err # NoErr /\ res.present /\ res.statusCode < 400) =>
        Carries(ret.err, ret.request.err)

\* C4 amended: whenever verifyRequest fails, the status is below 400 and
\* verifyResponse succeeds, the chain of the returned error contains the
\* request failure; when verifyResponse fails too the chain is that of the
\* response failure alone.
C4_RequestFailureCarried ==
    (Combined /\ ret.request.err # NoErr /\ res.present /\ res.statusCode < 400) =>
        IF ret.response.err = NoErr
        THEN Carries(ret.err, ret.request.err)
        ELSE Tail(ret.err) = ret.response.err

\* a failed request, status 200, and a verified response
C4_Witness ==
    /\ Combined
    /\ ret.request.err # NoErr
    /\ ret.response.err = NoErr
    /\ res.statusCode = 200
    /\ Carries(ret.err, ret.request.err)

\* C5: the combined verifier returns nil if and only if both verifyRequest
\* and verifyResponse return nil for the pair.
C5_NilIffBothNil ==
    Combined => (ret.err = NoErr <=> (ret.request.err = NoErr /\ ret.response.err = NoErr))

\* both sides verified and the combined verifier returned nil
C5_Witness ==
    /\ Combined
    /\ ret.request.ran /\ ret.request.err = NoErr
    /\ ret.response.ran /\ ret.response.err = NoErr
    /\ ret.err = NoErr

(***************************************************************************)
(* What the document declares for the request at hand, read off the        *)
(* document itself                                                         *)
(***************************************************************************)
BodyParamsOf(params) ==
    { params[i] : i \in { j \in 1..Len(params) : params[j].in = "body" } }

\* the body parameters that apply to the request's method on /u/{n}: the
\* operation's, or the path-item's when the operation has none
DeclaredBody ==
    LET item == doc.paths[TplUser]
        own == BodyParamsOf(item.ops[req.method].parameters)
    IN  IF own # {} THEN own ELSE BodyParamsOf(item.parameters)

\* the last call was verifyRequest and the request resolved to an operation
RequestResolved == ret.call = "verifyRequest" /\ ret.request.resolved

NotDefinedButBody ==
    New("failed to verify request: definition is not defined but body is not empty")

C7_EmptyBodyAccepted ==
    (/\ RequestResolved
     /\ ret.request.readOK
     /\ orig.req = <<>>
     /\ \E p \in DeclaredBody : ~(p.required /\ p.schema.present)) =>
        /\ ret.err = NoErr
        /\ ~ret.request.match.called
        /\ ~ret.request.decode.called

\* C8: for a request that resolves to an operation whose body parameter is
\* required and has a schema, verifyRequest with an empty or absent body
\* fails with an error containing 'body is empty', whatever the
\* Content-Type header.
C8_RequiredBodyEmpty ==
    (/\ RequestResolved
     /\ req.body.data = <<>>
     /\ \E p \in DeclaredBody : p.required /\ p.schema.present) =>
        "body is empty" \in Msgs(ret.err)

\* a PUT with no body and no Content-Type header, rejected as empty
C8_Witness ==
    /\ RequestResolved
    /\ req.method = "PUT"
    /\ ~req.body.present
    /\ req.header = EmptyStr
    /\ "body is empty" \in Msgs(ret.err)

\* the emptiness rule, case by case
EmptinessRule(schema, n, err) ==
    /\ err = New("schema is not defined") <=> (~schema.present /\ n # 0)
    /\ err = New("body is empty") <=> (schema.present /\ n = 0)
    /\ err = NoErr <=> (schema.present <=> n # 0)

\* C9: the emptiness rule fails 'schema is not defined' exactly when the
\* schema is absent and n # 0, fails 'body is empty' exactly when the schema
\* is present and n = 0, and passes in the two remaining cases; for every
\* application made by verifyRequest and for every schema and length.
C9_EmptinessRule ==
    /\ ret.request.check.called =>
         EmptinessRule(ret.request.check.schema, ret.request.check.n, ret.request.check.err)
    /\ \A schema \in {NoSchema, Schema("integer"), Schema("string")}, n \in 0..MaxBodyLen :
         EmptinessRule(schema, n, checkIfSchemaOrBodyIsEmpty(schema, n))

\* a required body parameter without schema met a non-empty body
C9_Witness ==
    /\ ret.call = "verifyRequest"
    /\ ret.request.check.called
    /\ ~ret.request.check.schema.present
    /\ ret.request.check.n # 0
    /\ ret.request.check.err = New("schema is not defined")

\* t is s without its surrounding spaces
IsTrimOf(t, s) ==
    \E i \in 1..(Len(s) + 1), j \in 0..Len(s) :
        /\ t = SubSeq(s, i, j)
        /\ \A k \in 1..(i - 1) : s[k] = Space
        /\ \A k \in (j + 1)..Len(s) : s[k] = Space
        /\ t # <<>> => (t[1] # Space /\ t[Len(t)] # Space)

Substrings(s) == { SubSeq(s, i, j) : i \in 1..(Len(s) + 1), j \in 0..Len(s) }

\* some declared entry, spaces trimmed, equals (strict) or occurs in
\* (relaxed) the header value, spaces trimmed
Acceptable(strict, header, allowed) ==
    \E i \in 1..Len(allowed) :
        \E h \in Substrings(header), e \in Substrings(allowed[i]) :
            /\ IsTrimOf(h, header)
            /\ IsTrimOf(e, allowed[i])
            /\ IF strict THEN h = e ELSE Contains(h, e)

\* C10: after trimming surrounding spaces from the header value and from
\* each declared entry, the content-type matcher accepts in strict mode if
\* and only if the header equals some declared entry, case-sensitively, and
\* in relaxed mode if and only if some declared entry occurs in the header.
C10_ContentTypeMatch ==
    ret.request.match.called =>
        (ret.request.match.err = NoErr <=>
            Acceptable(ret.request.match.strict, ret.request.match.header,
                       ret.request.match.allowed))

\* relaxed mode accepted a header that carries a parameter after the type
C10_Witness ==
    /\ ret.call = "verifyRequest"
    /\ ret.request.match.called
    /\ ~ret.request.match.strict
    /\ ret.request.match.header = AppJson \o <<";", "c">>
    /\ ret.request.match.err = NoErr

\* the matcher was applied on its own and this is its result
Matched == ret.call = "matchContentType"

\* C11: for every header value and every declared list, if the matcher
\* accepts in strict mode then it accepts the same header and list in
\* relaxed mode.
C11_StrictImpliesRelaxed ==
    (Matched /\ ret.request.match.strict /\ ret.request.match.err = NoErr) =>
        matchContentType([opts EXCEPT !.strictContentType = FALSE],
                         ret.request.match.header, ret.request.match.allowed).err = NoErr

\* strict mode accepted a padded header against a padded declared entry
C11_Witness ==
    /\ Matched
    /\ ret.request.match.strict
    /\ ret.request.match.err = NoErr
    /\ ret.request.match.header = <<Space>> \o AppJson \o <<Space>>
    /\ ret.request.match.allowed = <<AppXml, PaddedJson>>

\* C12: with an empty declared list in strict mode the matcher fails with
\* 'array of allowed content types is empty', whatever the header; every
\* other failure is 'Content-Type is not configured: ' followed by the
\* header value as supplied, and happens when no declared entry matches.
C12_MatcherFailures ==
    Matched =>
        /\ (ret.request.match.strict /\ ret.request.match.allowed = <<>>) =>
              ret.request.match.err = New("array of allowed content types is empty")
        /\ (ret.request.match.err # NoErr
              /\ ~(ret.request.match.strict /\ ret.request.match.allowed = <<>>)) =>
              /\ ret.request.match.err =
                    NewWith("Content-Type is not configured: ", req.header)
              /\ ~Acceptable(ret.request.match.strict, req.header, ret.request.match.allowed)

\* a padded header that no declared entry matches is reported with its padding
C12_Witness ==
    /\ Matched
    /\ ret.request.match.allowed = <<AppXml>>
    /\ req.header = <<Space>> \o AppJson \o <<Space>>
    /\ ret.request.match.err =
          NewWith("Content-Type is not configured: ", <<Space>> \o AppJson \o <<Space>>)

\* C13: whenever the content-type matcher succeeds, in strict or relaxed
\* mode, the media type it returns is one of the entries of the declared
\* list.
C13_ReturnsDeclaredEntry ==
    (Matched /\ ret.request.match.err = NoErr) =>
        \E i \in 1..Len(ret.request.match.allowed) :
            ret.request.match.out = ret.request.match.allowed[i]

\* the path-item and the operation the request of the state resolves to
ResolvedItem == doc.paths[mapRequest(mapper, req).tmpl]
ResolvedOp == ResolvedItem.ops[req.method]

\* the selection rule of responses: the exact status, else the default, else
\* the failure `err`
SelectionRule(operation, status, response, err, failure) ==
    IF status \in DOMAIN operation.codes
    THEN err = NoErr /\ response = operation.codes[status]
    ELSE IF operation.default.present
    THEN err = NoErr /\ response = operation.default
    ELSE err = failure

NeitherDefined ==
    New("neither default nor response schema for current status code is defined")

\* every operation declared by the document of the state
DeclaredOps ==
    { doc.paths[t].ops[m] : t \in DOMAIN doc.paths, m \in Methods } \ {NoOperation}

\* getResponseDef reached the selection of the response
ResponseSelected ==
    /\ ret.call = "getResponseDef"
    /\ pc # "panic"
    /\ "failed to get path item defintiion" \notin Msgs(ret.err)
    /\ "response definition not configured" \notin Msgs(ret.err)

\* C14: response selection returns the response declared under the exact
\* status code when one exists, even if a default also exists; otherwise
\* the default response when one exists; otherwise it fails with 'neither
\* default nor response schema for current status code is defined'.  For
\* the selection made by getResponseDef and for every declared operation
\* and status code.
C14_ResponseSelection ==
    /\ ResponseSelected =>
         SelectionRule(ResolvedOp, res.statusCode, ret.out.response, ret.err,
                       Wrap(NeitherDefined, "response not valid"))
    /\ \A operation \in DeclaredOps, status \in StatusCodes :
         SelectionRule(operation, status, responseByStatus(status, operation).response,
                       responseByStatus(status, operation).err, NeitherDefined)

\* a GET answered 200 got the response declared for 200, not the default
C14_Witness ==
    /\ ResponseSelected
    /\ req.method = "GET"
    /\ res.statusCode = 200
    /\ ResolvedOp.default = ResponseDef(Schema("string"))
    /\ ret.err = NoErr
    /\ ret.out.response = ResponseDef(Schema("integer"))

\* the operation's list when it is not empty, the document-wide one otherwise
EffectiveList(own, wide) == IF Len(own) # 0 THEN own ELSE wide

\* C15: the consumes list used for a request is the operation's consumes
\* when non-empty and the document-wide consumes otherwise; the produces
\* list used for a response is the operation's produces when non-empty and
\* the document-wide produces otherwise; never a merge of the two.
C15_EffectiveMimeLists ==
    /\ (ret.call = "getRequestDef" /\ ret.err = NoErr) =>
          ret.out.consumes = EffectiveList(ResolvedOp.consumes, doc.consumes)
    /\ (ResponseSelected /\ ret.err = NoErr) =>
          ret.out.produces = EffectiveList(ResolvedOp.produces, doc.produces)

\* an operation with its own produces answered under a document that
\* declares a different, non-empty, document-wide list
C15_Witness ==
    /\ ResponseSelected
    /\ ret.err = NoErr
    /\ req.method = "POST"
    /\ ResolvedOp.produces = <<AppJson>>
    /\ doc.produces = <<JsonWord>>
    /\ ret.out.produces = <<AppJson>>

\* the positions of the body parameters of a list
BodyIdx(params) == { i \in 1..Len(params) : params[i].in = "body" }

\* the body parameter at the least position, if any
FirstBodyOf(params) ==
    IF BodyIdx(params) = {} THEN NoDef
    ELSE [found |-> TRUE,
          param |-> params[CHOOSE i \in BodyIdx(params) : \A j \in BodyIdx(params) : i <= j]]

RECURSIVE Segments(_)
Segments(p) ==
    IF \A i \in 1..Len(p) : p[i] # Slash THEN <<p>>
    ELSE LET k == CHOOSE i \in 1..Len(p) :
                      p[i] = Slash /\ \A j \in 1..(i - 1) : p[j] # Slash
         IN  <<SubSeq(p, 1, k - 1)>> \o Segments(SubSeq(p, k + 1, Len(p)))

\* path p is template t with every placeholder replaced by a non-empty segment
IsInstance(t, p) ==
    /\ Len(Segments(t)) = Len(Segments(p))
    /\ \A i \in 1..Len(Segments(t)) :
          \/ Segments(t)[i] = Segments(p)[i]
          \/ Segments(t)[i] = <<Placeholder>> /\ Segments(p)[i] # <<>>

\* an instance, or an instance followed by one slash
IsInstanceSlash(t, p) ==
    \/ IsInstance(t, p)
    \/ p # <<>> /\ p[Len(p)] = Slash /\ IsInstance(t, SubSeq(p, 1, Len(p) - 1))

\* base path b followed by path p, the slash between them not doubled
Under(b, p) == TrimRight(b, Slash) \o p

\* the templates the document declares with an operation for method m
RegisteredFor(m) ==
    IF m \in Methods THEN { t \in DOMAIN doc.paths : doc.paths[t].ops[m].present } ELSE {}

\* path p is base path b followed by an instance of template t
IsInstanceUnder(b, t, p) ==
    \E k \in 0..Len(p) :
        /\ p = Under(b, SubSeq(p, k + 1, Len(p)))
        /\ IsInstance(t, SubSeq(p, k + 1, Len(p)))

NotMatched == [tmpl |-> EmptyStr, isSet |-> FALSE]

\* C17: mapRequest reports not-matched (empty template, flag false) for a
\* request whose method has no registered template, for one whose path
\* matches no template registered for that method, and, when the mapper has
\* a base path, for one whose path does not begin with it; it reports
\* matched for a path that is the base path followed by an instance of a
\* template registered for the method.
C17_MapRequestMatching ==
    ret.call = "mapRequest" =>
        /\ RegisteredFor(req.method) = {} => ret.out = NotMatched
        /\ (\A t \in RegisteredFor(req.method) :
                ~IsInstanceSlash(Under(mapper.basePath, t), req.path)) => ret.out = NotMatched
        /\ (mapper.basePath # EmptyStr /\ ~HasPrefix(req.path, mapper.basePath)) =>
                ret.out = NotMatched
        /\ (\E t \in RegisteredFor(req.method) :
                IsInstanceUnder(mapper.basePath, t, req.path)) => ret.out.isSet

\* a GET of /v/u/7 under the base path /v matched the template /u/{n}
C17_Witness ==
    /\ ret.call = "mapRequest"
    /\ mapper.basePath = <<Slash, "v">>
    /\ req.method = "GET"
    /\ req.path = <<Slash, "v", Slash, "u", Slash, "7">>
    /\ ret.out = [tmpl |-> TplUser, isSet |-> TRUE]

\* C18: for every request the mapper matches and every base path, '/' and
\* one ending in a slash included, the template mapRequest returns is a
\* path template the document declares for the method, and the path-item
\* lookup of getPathDef never fails with 'no path item definition found for
\* path template'.
C18_TemplateFidelity ==
    /\ (ret.call = "mapRequest" /\ ret.out.isSet) =>
          ret.out.tmpl \in RegisteredFor(req.method)
    /\ ret.call = "getPathDef" =>
          "no path item definition found for path template" \notin Msgs(ret.err)

\* C19: when the path of a request matches both the template with a
\* literal segment and the one with a placeholder in the same position,
\* both registered for its method, mapRequest returns the template with the
\* literal segment, in whatever order the paths were registered.
C19_LiteralWins ==
    (/\ ret.call = "mapRequest"
     /\ {TplUser, TplLogin} \subseteq RegisteredFor(req.method)
     /\ IsInstanceUnder(mapper.basePath, TplLogin, req.path)) =>
        ret.out = [tmpl |-> TplLogin, isSet |-> TRUE]

\* C20: with ignoreBasePath supplied at construction and a non-empty base
\* path in the document, a request whose path is an instance of a declared
\* template, alone or after the base path, resolves to that template.
C20_IgnoreBasePath ==
    (/\ ret.call = "mapRequest"
     /\ opts.ignoreBasePath
     /\ doc.basePath # EmptyStr) =>
        \A t \in RegisteredFor(req.method) :
            (IsInstance(t, req.path) \/ IsInstanceUnder(doc.basePath, t, req.path)) =>
                /\ ret.out.isSet
                /\ ret.out.tmpl \in RegisteredFor(req.method)
                /\ \/ IsInstance(ret.out.tmpl, req.path)
                   \/ IsInstanceUnder(doc.basePath, ret.out.tmpl, req.path)

\* the last call was verifyRequest or verifyResponse
Verified == ret.call \in {"verifyRequest", "verifyResponse"}

\* the declared templates the path of the request is an instance of
TemplatesOfPath == { t \in DOMAIN doc.paths : IsInstance(t, req.path) }

NoPathMatch == "no path template matches current request"

\* C21 as stated: a request whose path is an instance of a declared
\* template whose path-item declares no operation for the method fails, in
\* verifyRequest and in verifyResponse, with an error containing 'no path
\* template matches current request'.
C21_UndeclaredMethod ==
    (/\ Verified
     /\ \E t \in TemplatesOfPath : ~doc.paths[t].ops[req.method].present) =>
        NoPathMatch \in Msgs(ret.err)

\* C21, amended: a request whose path is an instance of some declared
\* template, no template it is an instance of declaring an operation for
\* the method, fails, in verifyRequest and in verifyResponse, with an error
\* containing 'no path template matches current request'.
C21_UndeclaredMethodOnEveryMatch ==
    (/\ Verified
     /\ TemplatesOfPath # {}
     /\ \A t \in TemplatesOfPath : ~doc.paths[t].ops[req.method].present) =>
        NoPathMatch \in Msgs(ret.err)

\* verifyResponse on a HEAD of /u/7, a method /u/{n} does not declare
C21_Witness ==
    /\ ret.call = "verifyResponse"
    /\ res.present
    /\ req.method = "HEAD"
    /\ req.path = <<Slash, "u", Slash, "7">>
    /\ NoPathMatch \in Msgs(ret.err)

NoOperationMsg == "no operation configured for method: "

\* some declared template the path is an instance of has no operation for
\* the method of the request
EmptySlot == \E t \in TemplatesOfPath : ~doc.paths[t].ops[req.method].present

\* C22 as stated: when the request URL matches a declared path template
\* but the matched path-item's slot for the request method is empty,
\* verification fails with 'no operation configured for method'.
C22_NoOperationReported ==
    (Verified /\ EmptySlot) => NoOperationMsg \in Msgs(ret.err)

\* C22, amended: when the request URL matches a declared path template
\* whose path-item has an empty slot for the request method, verification
\* never fails with 'no operation configured for method'; it fails with
\* 'no path template matches current request' unless another declared
\* template the path matches declares the method.
C22_NoOperationNeverReported ==
    (Verified /\ EmptySlot) =>
        /\ NoOperationMsg \notin Msgs(ret.err)
        /\ \/ NoPathMatch \in Msgs(ret.err)
           \/ \E t \in TemplatesOfPath : doc.paths[t].ops[req.method].present

\* verifyRequest on a HEAD of /u/7 failed as an unmatched path
C22_Witness ==
    /\ ret.call = "verifyRequest"
    /\ req.method = "HEAD"
    /\ req.path = <<Slash, "u", Slash, "7">>
    /\ EmptySlot
    /\ ret.err = Wrap(New(NoPathMatch), "failed to get pathItem defintiion")

\* every body read of the last call succeeded
ReadsSucceeded ==
    /\ ret.request.read => ret.request.readOK
    /\ ret.response.read => ret.response.readOK

\* C23: calling the same callable again on the same request and response
\* handles, as the first call left them, returns the same verdict and
\* leaves the handles as they are, for every input whose body reads
\* succeeded.
C23_Repeatable ==
    (pc = "ready" /\ ReadsSucceeded) =>
        /\ ret.call = "verifyRequest" =>
              /\ verifyRequest(Verifier, req).err = ret.err
              /\ verifyRequest(Verifier, req).body = req.body
        /\ ret.call = "verifyResponse" =>
              /\ verifyResponse(Verifier, res, req).err = ret.err
              /\ verifyResponse(Verifier, res, req).body = res.body
        /\ ret.call = "verifyRequestAndReponse" =>
              /\ verifyRequestAndReponse(Verifier, res, req).report = ret.err
              /\ verifyRequestAndReponse(Verifier, res, req).request.body = req.body
              /\ verifyRequestAndReponse(Verifier, res, req).response.body = res.body

\* a PUT whose one-byte body was read and verified, the handle holding the
\* byte again
C23_Witness ==
    /\ pc = "ready"
    /\ ret.call = "verifyRequest"
    /\ req.method = "PUT"
    /\ ret.request.readOK
    /\ ret.request.bytes = <<Digit>>
    /\ ret.err = NoErr
    /\ Replay(req.body) = <<Digit>>

\* what the call of process p returns, and the body it leaves on the handle
\* it reads, when it runs alone from the handles as supplied
Alone(p) ==
    IF orig[p].call = "verifyRequest"
    THEN [err |-> verifyRequest(Verifier, orig[p].req).err,
          body |-> verifyRequest(Verifier, orig[p].req).body]
    ELSE [err |-> verifyResponse(Verifier, orig[p].res, orig[p].req).err,
          body |-> verifyResponse(Verifier, orig[p].res, orig[p].req).body]

\* C24: concurrent verifications sharing one verifier and using distinct
\* handles do not interfere: under every interleaving of their steps, each
\* returns the verdict, and leaves the body of its handle in the state, it
\* would when run alone; the handles it does not read stay as supplied.
C24_NoInterference ==
    \A p \in Procs :
        /\ pc[p] = "done" =>
              /\ ret[p].err = Alone(p).err
              /\ IF orig[p].call = "verifyRequest"
                 THEN req[p].body = Alone(p).body /\ res[p] = orig[p].res
                 ELSE res[p].body = Alone(p).body /\ req[p] = orig[p].req
        /\ pc[p] = "start" => (req[p] = orig[p].req /\ res[p] = orig[p].res)

\* a verifyRequest accepted a PUT of one digit while, after that request's
\* body was read, another process read a body of its own
C24_Witness ==
    /\ pc["p1"] = "done"
    /\ orig["p1"].call = "verifyRequest"
    /\ orig["p1"].req.method = "PUT"
    /\ orig["p1"].req.body = Reader(<<Digit>>)
    /\ ret["p1"].err = NoErr
    /\ pc["p2"] = "read"
    /\ orig["p2"].call = "verifyResponse"
    /\ ret["p2"].bytes = <<Quote, Quote>>

\* C25: no verification call changes the verifier: the options record, the
\* OpenAPI model and the mapper are unchanged by verifyRequest,
\* verifyResponse and the combined verifier; verifyRequest changes at most
\* the body handle of the request, verifyResponse at most the body handle
\* of the response, the combined verifier at most the two body handles.
C25_Frame ==
    [][ pc = "ready" =>
          /\ doc' = doc
          /\ opts' = opts
          /\ mapper' = mapper
          /\ req' = [req EXCEPT !.body = req'.body]
          /\ res' = [res EXCEPT !.body = res'.body]
          /\ ret'.call = "verifyRequest" => res' = res
          /\ ret'.call = "verifyResponse" => req' = req ]_vars

\* verifyRequest moved the reader of a request body that broke while
\* read, and the verifier is as constructed
C25_Witness ==
    /\ ret.call = "verifyRequest"
    /\ req.body.pos # 0
    /\ opts = withDefaults
    /\ mapper = initMapper(doc, opts, <<TplUser>>)

\* C26: the combined verifier called with an absent response returns an
\* error for every request and never crashes by dereferencing the absent
\* response; for a request that matches no path template the error
\* contains 'no path template matches current request'.
C26_NilResponseSafe ==
    (ret.call = "verifyRequestAndReponse" /\ ~res.present) =>
        /\ pc # "panic"
        /\ ret.err # NoErr
        /\ TemplatesOfPath = {} => NoPathMatch \in Msgs(ret.err)

\* what decoding a body under a content type must give
DecodeRule(contentType, bytes, err) ==
    IF Contains(contentType, JsonWord)
    THEN err = Wrap(jsonDecoder(bytes).err, "failed to decode")
    ELSE err = Wrap(NewWith("failed to decode as ", contentType), "failed to decode")

\* C27: decoding is attempted with the JSON decoder if and only if the
\* matched content type contains 'json', case-sensitively; for every other
\* content type decoding fails whatever the body, and the failure surfaces
\* from verifyRequest as 'failed to decode request' and from verifyResponse
\* as 'failed to decode response'.
C27_DecoderSelection ==
    /\ ret.call = "verifyRequest" /\ ret.request.decode.called =>
         /\ DecodeRule(ret.request.decode.contentType, ret.request.bytes,
                       ret.request.decode.err)
         /\ ~Contains(ret.request.decode.contentType, JsonWord) =>
               /\ ret.err = Wrap(ret.request.decode.err, "failed to decode request")
               /\ ret.err # NoErr
    /\ ret.call = "verifyResponse" /\ ret.response.decode.called =>
         /\ DecodeRule(ret.response.decode.contentType, ret.response.bytes,
                       ret.response.decode.err)
         /\ ~Contains(ret.response.decode.contentType, JsonWord) =>
               /\ ret.err = Wrap(ret.response.decode.err, "failed to decode response")
               /\ ret.err # NoErr
    /\ \A contentType \in VerifyHeaders, b \in Contents :
         IF Contains(contentType, JsonWord)
         THEN getDecoder(contentType, b) = jsonDecoder(b)
         ELSE getDecoder(contentType, b) = getDecoder(contentType, <<>>)
              /\ getDecoder(contentType, b).err # NoErr

\* a response declared and sent as a/JSON, its body the JSON number 1, was
\* not decoded
C27_Witness ==
    /\ ret.call = "verifyResponse"
    /\ ret.response.decode.called
    /\ ret.response.decode.contentType = UpperJson
    /\ ret.response.bytes = <<Digit>>
    /\ "failed to decode response" \in Msgs(ret.err)

\* C28: with strict content type disabled, a request or response whose
\* effective consumes / produces list is empty is not rejected by the
\* content-type check.
C28_RelaxedEmptyListAccepted ==
    /\ (ret.call = "verifyRequest" /\ ret.request.match.called
          /\ ~ret.request.match.strict /\ ret.request.match.allowed = <<>>) =>
             ret.request.match.err = NoErr
    /\ (ret.call = "verifyResponse" /\ ret.response.match.called
          /\ ~ret.response.match.strict /\ ret.response.match.allowed = <<>>) =>
             ret.response.match.err = NoErr

BodyIsEmpty == Wrap(New("body is empty"), "either defined schema or response body is empty")

\* C29: in verifyResponse the emptiness rule is applied before content-type
\* matching: a response whose selected definition has a schema and whose
\* body is empty fails with 'body is empty', wrapped as '... response body
\* is empty', whatever its Content-Type header; and the content type is
\* matched only for responses that passed the emptiness rule.
C29_EmptinessBeforeContentType ==
    (ret.call = "verifyResponse" /\ ret.response.readOK) =>
        /\ (ret.response.response.schema.present /\ ret.response.bytes = <<>>) =>
              /\ ret.err = BodyIsEmpty
              /\ ~ret.response.match.called
        /\ ret.response.match.called =>
              /\ ret.response.check.called
              /\ ret.response.check.err = NoErr

\* an empty response to a GET answered 200, sent with a content type the
\* document does not declare
C29_Witness ==
    /\ ret.call = "verifyResponse"
    /\ ret.response.readOK
    /\ res.statusCode = 200
    /\ res.header = AppXml
    /\ doc.produces = <<UpperJson>>
    /\ ret.response.response.schema.present
    /\ ~res.body.present
    /\ ret.err = BodyIsEmpty

\* C30: verifyResponse returns success only if the selected response
\* definition has a schema, the body is not empty, the Content-Type header
\* was accepted against the effective produces list and contains 'json',
\* and the body decoded; a response whose definition has no schema and
\* whose body is empty passes the emptiness rule but never verifies.
C30_ResponseSuccess ==
    /\ (ret.call = "verifyResponse" /\ pc = "ready" /\ ret.err = NoErr) =>
          /\ ret.response.response.schema.present
          /\ ret.response.bytes # <<>>
          /\ ret.response.match.called
          /\ Acceptable(opts.strictContentType, res.header, ret.response.produces)
          /\ Contains(res.header, JsonWord)
          /\ ret.response.decode.called
          /\ ret.response.decode.err = NoErr
    /\ (ret.call = "verifyResponse" /\ ret.response.readOK
          /\ ~ret.response.response.schema.present /\ ret.response.bytes = <<>>) =>
          /\ ret.response.check.err = NoErr
          /\ ret.err # NoErr

\* a response without schema and without body, sent as JSON, passed the
\* emptiness rule and the content type and failed in decoding
C30_Witness ==
    /\ ret.call = "verifyResponse"
    /\ ret.response.readOK
    /\ ~ret.response.response.schema.present
    /\ ret.response.bytes = <<>>
    /\ ret.response.match.called
    /\ ret.response.match.err = NoErr
    /\ "failed to decode response" \in Msgs(ret.err)

====
